---- MODULE Spec2Model ----
(***************************************************************************)
(* Derby Predictor dashboards: app.py (first entry point) and demo-app.py  *)
(* (second entry point).  The model covers the data resolver load_csv with *)
(* its st.cache_data memoisation, the demo substitution, the filter stage, *)
(* the access gate, the summary metrics and render_table.                  *)
(*                                                                         *)
(* Encoding of Python values:                                              *)
(*   str            a sequence of one-character strings, "ab" = <<"a","b">>*)
(*   Optional[x]    <<>> for None, <<x>> for a value                       *)
(*   a table cell   <<>> for NaN (missing), <<v>> for a value              *)
(*   a row          a record, one field per column                         *)
(*   a DataFrame    [columns, rows, strcols]; strcols are the columns of   *)
(*                  object (string) dtype, the ones .str works on          *)
(*   a call result  [exc, df]: exc = "none" when the call returned df,     *)
(*                  otherwise the name of the exception it raised          *)
(*   a float        tenths, as an integer (92.3 is 923)                    *)
(***************************************************************************)
EXTENDS Integers, Sequences, FiniteSets, TLC

VARIABLES
    fs,            \* the data files: path -> file content
    ACCESS_KEY,    \* demo-app.py:32, read once at process start
    key,           \* sidebar "Access key" text input
    demo_toggle,   \* sidebar "Demo mode" checkbox
    year_filter,   \* sidebar "Filter by Year" number input
    query_filter,  \* sidebar "Search Horse" text input
    cache,         \* st.cache_data of demo-app.py load_csv: path -> Optional[DataFrame]
    filled_from,   \* history: the file content each cache entry was read from
    demo_mode,     \* demo-app.py:99-108
    shown,         \* what the last run of demo-app.py computed, view by view
    app_cache,     \* st.cache_data of app.py load_csv
    app_filled_from, \* history, as filled_from, for app.py
    app_out,       \* what the last run of app.py computed, load by load
    changes,       \* number of file changes so far (bounded by MaxFileChanges)
    arg_df, arg_year, arg_query, arg_kind,  \* arguments of a direct call
    called,        \* the function a direct call applied ("" before the call)
    ret            \* the result of the direct call

vars == <<fs, ACCESS_KEY, key, demo_toggle, year_filter, query_filter, cache,
          filled_from, demo_mode, shown, app_cache, app_filled_from, app_out,
          changes, arg_df, arg_year, arg_query, arg_kind, called, ret>>

sessionVars == <<ACCESS_KEY, key, demo_toggle, year_filter, query_filter,
                 cache, filled_from, demo_mode, shown>>
appVars == <<app_cache, app_filled_from, app_out>>
callVars == <<arg_df, arg_year, arg_query, arg_kind, called, ret>>

----------------------------------------------------------------------------
(* Python values *)

None == <<>>
Some(v) == <<v>>
NaN == <<>>

\* Python truthiness of an Optional[int]: None and 0 are false.
TruthyInt(o) == o # None /\ o[1] # 0
\* Python truthiness of an Optional[str]: None and "" are false.
TruthyStr(o) == o # None /\ o[1] # <<>>

Range(s) == {s[i] : i \in 1..Len(s)}

\* str.lower(), character by character
ToLower ==
    ("A" :> "a") @@ ("B" :> "b") @@ ("C" :> "c") @@ ("D" :> "d") @@ ("E" :> "e") @@
    ("F" :> "f") @@ ("G" :> "g") @@ ("H" :> "h") @@ ("I" :> "i") @@ ("J" :> "j") @@
    ("K" :> "k") @@ ("L" :> "l") @@ ("M" :> "m") @@ ("N" :> "n") @@ ("O" :> "o") @@
    ("P" :> "p") @@ ("Q" :> "q") @@ ("R" :> "r") @@ ("S" :> "s") @@ ("T" :> "t") @@
    ("U" :> "u") @@ ("V" :> "v") @@ ("W" :> "w") @@ ("X" :> "x") @@ ("Y" :> "y") @@
    ("Z" :> "z")

LowerChar(c) == IF c \in DOMAIN ToLower THEN ToLower[c] ELSE c

----------------------------------------------------------------------------
(* re: the part of Python's regular expressions that the characters of    *)
(* QueryChars can spell: literals, ".", a postfix "*" and an opening "(". *)

\* re.compile raises re.error: "(" is never closed (no ")" can be typed
\* from these characters), and "*" needs something to repeat and cannot
\* follow another "*".
ReCompileFails(pat) ==
    \E i \in 1..Len(pat) :
        \/ pat[i] = "("
        \/ pat[i] = "*" /\ (i = 1 \/ pat[i - 1] = "*")

\* one pattern character against one subject character, re.IGNORECASE
ReCharMatches(p, c) == p = "." \/ LowerChar(p) = LowerChar(c)

RECURSIVE ReMatchAt(_, _, _, _)
\* the pattern from position i matches the subject from position j
ReMatchAt(pat, i, s, j) ==
    IF i > Len(pat) THEN TRUE
    ELSE IF i < Len(pat) /\ pat[i + 1] = "*"
         THEN \/ ReMatchAt(pat, i + 2, s, j)
              \/ /\ j <= Len(s)
                 /\ ReCharMatches(pat[i], s[j])
                 /\ ReMatchAt(pat, i, s, j + 1)
         ELSE /\ j <= Len(s)
              /\ ReCharMatches(pat[i], s[j])
              /\ ReMatchAt(pat, i + 1, s, j + 1)

\* compiled.search(s) is not None
ReSearch(pat, s) == \E j \in 1..(Len(s) + 1) : ReMatchAt(pat, 1, s, j)

----------------------------------------------------------------------------
(* pandas *)

\* pd.DataFrame()
EmptyDataFrame == [columns |-> <<>>, rows |-> <<>>, strcols |-> {}]

\* df.empty: any axis of length 0
df_empty(df) == Len(df.rows) = 0 \/ Len(df.columns) = 0

HasColumn(df, c) == c \in Range(df.columns)

Ok(df) == [exc |-> "none", df |-> df]
Raise(e) == [exc |-> e, df |-> EmptyDataFrame]

\* out[out["Year"] == year]: NaN == year is False
YearEquals(df, y) ==
    LET keep(row) == row.Year = Some(y)
    IN  [df EXCEPT !.rows = SelectSeq(df.rows, keep)]

\* out[out["Horse"].str.contains(query, case=False, na=False)]: regex=True is
\* the default, so query is compiled as a pattern; na=False maps NaN to False.
StrContains(df, q) ==
    LET keep(row) == row.Horse # NaN /\ ReSearch(q, row.Horse[1])
    IN  [df EXCEPT !.rows = SelectSeq(df.rows, keep)]

----------------------------------------------------------------------------
(* Constants of demo-app.py *)

\* One character per element, so that str.contains can look inside.
ThunderLane == <<"T","h","u","n","d","e","r"," ","L","a","n","e">>
BlueRibbon == <<"B","l","u","e"," ","R","i","b","b","o","n">>
CrimsonTide == <<"C","r","i","m","s","o","n"," ","T","i","d","e">>
MidnightAce == <<"M","i","d","n","i","g","h","t"," ","A","c","e">>
GoldenHarbor == <<"G","o","l","d","e","n"," ","H","a","r","b","o","r">>

DATA_VIEWS == <<
    [key |-> "quick",   title |-> "Quick Composite",  file |-> "data/quick_predictions.csv"],
    [key |-> "rank",    title |-> "Model Rankings",   file |-> "data/model_rankings.csv"],
    [key |-> "pca",     title |-> "PCA Insights",     file |-> "data/pca_summary.csv"],
    [key |-> "overlay", title |-> "Value Picks",      file |-> "data/value_overlay.csv"],
    [key |-> "cluster", title |-> "Cluster Analysis", file |-> "data/cluster_insights.csv"] >>

DEFAULT_VISIBLE_COLS ==
    <<"Horse", "Year", "PP", "Trainer", "Jockey", "CompositeIndex", "Note">>

\* number_input(min_value=1900, max_value=2100, value=2025)
MinYear == 1900
MaxYear == 2100
DefaultYear == 2025

\* the kind the view loop passes to ensure_demo_if_empty
ViewKind(view) == IF view.key \in {"pca", "cluster"} THEN view.key ELSE view.title

ViewKinds == {ViewKind(DATA_VIEWS[i]) : i \in 1..Len(DATA_VIEWS)}
DemoPaths == {DATA_VIEWS[i].file : i \in 1..Len(DATA_VIEWS)}

----------------------------------------------------------------------------
(* demo-app.py: utilities *)

make_demo_df(kind) ==
    LET horses == <<ThunderLane, BlueRibbon, CrimsonTide, MidnightAce, GoldenHarbor>>
        pp == <<3, 7, 11, 5, 9>>
        composite == <<923, 901, 887, 879, 864>>
        speed == <<100, 101, 98, 99, 97>>
        fraction == <<376, 379, 381, 378, 382>>
        pc1 == <<12, 9, -3, 4, -7>>
        pc2 == <<-1, 5, 10, -2, 3>>
        cluster == <<"A", "A", "B", "B", "C">>
        base(i) == [Horse |-> Some(horses[i]), Year |-> Some(2025), PP |-> Some(pp[i]),
                    Trainer |-> Some("Redacted"), Jockey |-> Some("Redacted"),
                    CompositeIndex |-> Some(composite[i]), SpeedFigure |-> Some(speed[i]),
                    FinalFraction |-> Some(fraction[i]),
                    Note |-> Some(<<kind, " (demo)">>)]
        row(i) == IF kind = "pca"
                  THEN base(i) @@ [PC1 |-> Some(pc1[i]), PC2 |-> Some(pc2[i])]
                  ELSE IF kind = "cluster"
                  THEN base(i) @@ [Cluster |-> Some(cluster[i])]
                  ELSE base(i)
        basecols == <<"Horse", "Year", "PP", "Trainer", "Jockey", "CompositeIndex",
                      "SpeedFigure", "FinalFraction", "Note">>
    IN  [columns |-> IF kind = "pca" THEN basecols \o <<"PC1", "PC2">>
                     ELSE IF kind = "cluster" THEN Append(basecols, "Cluster")
                     ELSE basecols,
         rows |-> <<row(1), row(2), row(3), row(4), row(5)>>,
         strcols |-> {"Horse", "Trainer", "Jockey", "Note"}
                     \cup (IF kind = "cluster" THEN {"Cluster"} ELSE {})]

\* seeded fault: the synthetic table replaces every table
EnsureAlwaysDemo(df, kind) == make_demo_df(kind)

\* seeded fault: no substitution
EnsureNeverDemo(df, kind) == df

ensure_demo_if_empty(df, kind) == IF ~df_empty(df) THEN df ELSE make_demo_df(kind)

\* seeded fault: no filter is applied
ApplyFiltersKeepAll(df, year, query) == Ok(df)

apply_filters(df, year, query) ==
    LET out1 == IF TruthyInt(year) /\ HasColumn(df, "Year")
                THEN YearEquals(df, year[1])
                ELSE df
    IN  IF TruthyStr(query) /\ HasColumn(out1, "Horse")
        THEN IF "Horse" \notin out1.strcols
             THEN Raise("AttributeError")    \* .str on a column that holds no strings
             ELSE IF ReCompileFails(query[1])
             THEN Raise("re.error")
             ELSE Ok(StrContains(out1, query[1]))
        ELSE Ok(out1)

----------------------------------------------------------------------------
(* The data files.  A file is missing, exists with zero bytes (pd.read_csv *)
(* raises EmptyDataError), or holds a header line and records.  A column   *)
(* named in TextColumns holds text or nothing, any other column holds      *)
(* integers or nothing.                                                    *)

Missing == [kind |-> "missing", columns |-> <<>>, rows |-> <<>>]
ZeroBytes == [kind |-> "zero_bytes", columns |-> <<>>, rows |-> <<>>]
Csv(columns, rows) == [kind |-> "csv", columns |-> columns, rows |-> rows]

TextColumns == {"Horse", "Trainer", "Jockey", "Note", "Cluster"}

\* os.path.exists(path)
path_exists(content) == content.kind # "missing"

\* pd.read_csv on a file that parses.  A column is of object dtype when it
\* holds at least one string, and also when there is no record at all.
read_csv(content) ==
    [columns |-> content.columns,
     rows |-> content.rows,
     strcols |-> {c \in Range(content.columns) :
                    \/ content.rows = <<>>
                    \/ /\ c \in TextColumns
                       /\ \E i \in 1..Len(content.rows) : content.rows[i][c] # NaN}]

\* the body of demo-app.py load_csv: every exception is swallowed
LoadCsvBody(content) ==
    IF path_exists(content)
    THEN IF content.kind = "csv" THEN Ok(read_csv(content))
         ELSE Ok(EmptyDataFrame)        \* except Exception: pass
    ELSE Ok(EmptyDataFrame)

\* the body of app.py load_csv: no try, read_csv's exception propagates
AppLoadCsvBody(content) ==
    IF path_exists(content)
    THEN IF content.kind = "csv" THEN Ok(read_csv(content))
         ELSE Raise("EmptyDataError")
    ELSE Ok(EmptyDataFrame)

\* seeded fault: no memoisation, the body runs on every call
LoadCsvUncached(memo, content) == LoadCsvBody(content)

\* @st.cache_data: a result computed for this path before is returned
\* without running the body
load_csv(memo, content) == IF memo # None THEN Ok(memo[1]) ELSE LoadCsvBody(content)

app_load_csv(memo, content) == IF memo # None THEN Ok(memo[1]) ELSE AppLoadCsvBody(content)

\* st.cache_data stores what the body returned; a raised exception is not stored
CacheAfter(memo, result) ==
    IF memo = None /\ result.exc = "none" THEN Some(result.df) ELSE memo

FilledAfter(memo, result, was, content) ==
    IF memo = None /\ result.exc = "none" THEN Some(content) ELSE was

----------------------------------------------------------------------------
(* demo-app.py: the access gate, the summary metrics, render_table *)

\* seeded fault: the typed key is not compared
DemoModeIgnoresKey(secret, k, toggle) == IF TruthyStr(secret) THEN TRUE ELSE toggle

\* demo-app.py:99-108
DemoMode(secret, k, toggle) ==
    IF TruthyStr(secret) THEN k # secret[1] ELSE toggle

Values(df, c) == {df.rows[i][c][1] : i \in {j \in 1..Len(df.rows) : df.rows[j][c] # NaN}}

Min(S) == CHOOSE x \in S : \A y \in S : x <= y
Max(S) == CHOOSE x \in S : \A y \in S : x >= y

RECURSIVE SumCells(_, _)
\* the sum of the values of column c, NaN skipped
SumCells(rows, c) ==
    IF rows = <<>> THEN 0
    ELSE (IF Head(rows)[c] = NaN THEN 0 ELSE Head(rows)[c][1]) + SumCells(Tail(rows), c)

\* Series.mean() as the pair <<sum, count>> of the values present; a count of
\* 0 is NaN, which formats as "nan"
Mean(df, c) ==
    <<SumCells(df.rows, c), Cardinality({i \in 1..Len(df.rows) : df.rows[i][c] # NaN})>>

NoMetrics == [exc |-> "none", Horses |-> None, PPRange |-> None,
              AvgSpeed |-> None, AvgFinal |-> None]

\* demo-app.py:133-141.  Series.min() of no values is NaN and int(NaN) raises
\* ValueError.
Metrics(df) ==
    IF HasColumn(df, "PP") /\ Values(df, "PP") = {}
    THEN [NoMetrics EXCEPT !.exc = "ValueError"]
    ELSE [exc |-> "none",
          Horses |-> IF HasColumn(df, "Horse")
                     THEN Some(Cardinality(Values(df, "Horse"))) ELSE None,
          PPRange |-> IF HasColumn(df, "PP")
                      THEN Some(<<Min(Values(df, "PP")), Max(Values(df, "PP"))>>)
                      ELSE None,
          AvgSpeed |-> IF HasColumn(df, "SpeedFigure")
                       THEN Some(Mean(df, "SpeedFigure")) ELSE None,
          AvgFinal |-> IF HasColumn(df, "FinalFraction")
                       THEN Some(Mean(df, "FinalFraction")) ELSE None]

\* [c for c in DEFAULT_VISIBLE_COLS if c in df.columns]
DefaultCols(df) ==
    LET present(c) == HasColumn(df, c)
    IN  SelectSeq(DEFAULT_VISIBLE_COLS, present)

\* render_table with the column selector left at its default: what is put
\* on the page, "info" for st.info("No rows to display.")
render_table(df) ==
    IF df_empty(df) THEN [info |-> TRUE, cols |-> <<>>, nrows |-> 0]
    ELSE LET default_cols == DefaultCols(df)
             cols == IF default_cols # <<>> THEN default_cols
                     ELSE SubSeq(df.columns, 1, IF Len(df.columns) < 8 THEN Len(df.columns) ELSE 8)
         IN  [info |-> FALSE, cols |-> cols, nrows |-> Len(df.rows)]

NotRendered == [info |-> FALSE, cols |-> <<>>, nrows |-> 0]

\* One pass of the view loop, demo-app.py:123-143, for view number i: the
\* successive values of df (loaded, substituted, df), the metrics and the
\* rendering, and the exception that ended the pass, if any.
ViewPass(i, files, memo, year, query) ==
    LET view == DATA_VIEWS[i]
        loaded == load_csv(memo[view.file], files[view.file]).df
        substituted == ensure_demo_if_empty(loaded, ViewKind(view))
        filtered == apply_filters(substituted, Some(year), Some(query))
        metrics == Metrics(filtered.df)
    IN  [view |-> view.key,
         at_call |-> files[view.file],   \* history: the file when load_csv was called
         loaded |-> loaded,
         substituted |-> substituted,
         df |-> filtered.df,
         metrics |-> IF filtered.exc = "none" THEN metrics ELSE NoMetrics,
         rendered |-> IF filtered.exc = "none" /\ metrics.exc = "none"
                      THEN render_table(filtered.df) ELSE NotRendered,
         exc |-> IF filtered.exc # "none" THEN filtered.exc ELSE metrics.exc]

----------------------------------------------------------------------------
(* Bounds and the values the environment supplies *)

\* file changes (create, replace, delete) in one behaviour
MaxFileChanges == 1
\* rows of a table handed to a direct call
MaxRows == 2
\* characters of a query handed to a direct call
MaxQueryLen == 2

APP_FILES == <<"derby_2025_quick_predictions.csv", "derby_2025_rank_composite.csv",
               "derby_2025_pca_ranking.csv", "derby_2025_overlay_candidates.csv",
               "derby_2025_cluster_analysis.csv">>
AppPaths == Range(APP_FILES)
Paths == DemoPaths \cup AppPaths

Baeza == <<"B","a","e","z","a">>
Mage == <<"M","a","g","e">>

\* a file of real rows, none of them a row of make_demo_df
RealCsv == Csv(<<"Horse", "Year", "PP">>,
               << [Horse |-> Some(Baeza), Year |-> Some(2025), PP |-> Some(21)],
                  [Horse |-> Some(Mage), Year |-> Some(2024), PP |-> Some(8)] >>)
\* a header line and no record
HeaderOnlyCsv == Csv(<<"Horse", "Year">>, <<>>)
\* records whose Horse field is blank
NoNamesCsv == Csv(<<"Horse", "Year", "SpeedFigure">>,
                  << [Horse |-> NaN, Year |-> Some(2025), SpeedFigure |-> Some(99)] >>)

FileContents == {Missing, ZeroBytes, RealCsv, HeaderOnlyCsv, NoNamesCsv}
\* demo-app.py loads a file that cannot be parsed exactly as a missing one
\* (LoadCsvBody); the session is explored with the other contents, and the
\* resolvers with all of them
SessionFileContents == FileContents \ {ZeroBytes}

Secret == <<"s","3","c","r","e","t">>
Guess == <<"g","u","e","s","s">>
\* st.secrets.get("ACCESS_KEY", os.getenv("DERBY_APP_KEY")): unset, set to "", set
AccessKeys == {None, Some(<<>>), Some(Secret)}
KeyChoices == {<<>>, Secret, Guess}
\* years the number input accepts
YearChoices == {y \in {2024, DefaultYear} : MinYear <= y /\ y <= MaxYear}
QueryChoices == {<<>>, <<"(">>, <<"a","c","e">>}

----------------------------------------------------------------------------
(* The running system: one demo-app.py session, app.py, and the files *)

\* no session yet, nothing cached, no data file
Idle ==
    /\ fs = [p \in Paths |-> Missing]
    /\ key = <<>>
    /\ demo_toggle = TRUE
    /\ year_filter = DefaultYear
    /\ query_filter = <<>>
    /\ cache = [p \in DemoPaths |-> None]
    /\ filled_from = [p \in DemoPaths |-> None]
    /\ demo_mode = FALSE
    /\ shown = <<>>
    /\ app_cache = [p \in AppPaths |-> None]
    /\ app_filled_from = [p \in AppPaths |-> None]
    /\ app_out = <<>>
    /\ changes = 0

NoCall ==
    /\ arg_df = EmptyDataFrame
    /\ arg_year = None
    /\ arg_query = None
    /\ arg_kind = ""
    /\ called = ""
    /\ ret = Ok(EmptyDataFrame)

Init ==
    /\ Idle
    /\ ACCESS_KEY \in AccessKeys
    /\ NoCall

RECURSIVE RunViews(_, _, _, _, _)
\* the passes of the view loop from view number i on: a pass that raises
\* ends the script run
RunViews(i, files, memo, year, query) ==
    IF i > Len(DATA_VIEWS) THEN <<>>
    ELSE LET pass == ViewPass(i, files, memo, year, query)
         IN  IF pass.exc # "none" THEN <<pass>>
             ELSE <<pass>> \o RunViews(i + 1, files, memo, year, query)

\* One run of demo-app.py from top to bottom with the widgets at k, t, y, q.
Script(k, t, y, q) ==
    /\ key' = k
    /\ demo_toggle' = t
    /\ year_filter' = y
    /\ query_filter' = q
    /\ demo_mode' = DemoMode(ACCESS_KEY, k, t)
    /\ shown' = RunViews(1, fs, cache, y, q)
    /\ LET ran == {DATA_VIEWS[i].file : i \in 1..Len(shown')}
       IN  /\ cache' = [p \in DemoPaths |->
                          IF p \in ran
                          THEN CacheAfter(cache[p], load_csv(cache[p], fs[p]))
                          ELSE cache[p]]
           /\ filled_from' = [p \in DemoPaths |->
                          IF p \in ran
                          THEN FilledAfter(cache[p], load_csv(cache[p], fs[p]),
                                           filled_from[p], fs[p])
                          ELSE filled_from[p]]
    /\ UNCHANGED <<ACCESS_KEY, fs, changes, appVars, callVars>>

\* a browser opens the page: a new session, every widget at its default
NewSession == Script(<<>>, TRUE, DefaultYear, <<>>)

\* the access key is typed; the input exists only when a key is required
KeyInput(k) ==
    /\ shown # <<>>
    /\ TruthyStr(ACCESS_KEY)
    /\ k # key
    /\ Script(k, demo_toggle, year_filter, query_filter)

\* the demo checkbox is clicked; it exists only when no key is required
DemoToggle ==
    /\ shown # <<>>
    /\ ~TruthyStr(ACCESS_KEY)
    /\ Script(key, ~demo_toggle, year_filter, query_filter)

YearInput(y) ==
    /\ shown # <<>>
    /\ y # year_filter
    /\ Script(key, demo_toggle, y, query_filter)

QueryInput(q) ==
    /\ shown # <<>>
    /\ q # query_filter
    /\ Script(key, demo_toggle, year_filter, q)

\* one load of app.py:18-22, with the file as it was when load_csv was called
AppLoad(i, files, memo) ==
    LET result == app_load_csv(memo[APP_FILES[i]], files[APP_FILES[i]])
    IN  [exc |-> result.exc, df |-> result.df, at_call |-> files[APP_FILES[i]]]

RECURSIVE AppLoads(_, _, _)
\* the loads of app.py from load number i on: a load that raises ends the
\* script run
AppLoads(i, files, memo) ==
    IF i > Len(APP_FILES) THEN <<>>
    ELSE LET load == AppLoad(i, files, memo)
         IN  IF load.exc # "none" THEN <<load>>
             ELSE <<load>> \o AppLoads(i + 1, files, memo)

\* One run of app.py from top to bottom, app.py:18-44.
AppRun ==
    /\ app_out' = AppLoads(1, fs, app_cache)
    /\ LET ran == {APP_FILES[i] : i \in 1..Len(app_out')}
       IN  /\ app_cache' = [p \in AppPaths |->
                          IF p \in ran
                          THEN CacheAfter(app_cache[p], app_load_csv(app_cache[p], fs[p]))
                          ELSE app_cache[p]]
           /\ app_filled_from' = [p \in AppPaths |->
                          IF p \in ran
                          THEN FilledAfter(app_cache[p], app_load_csv(app_cache[p], fs[p]),
                                           app_filled_from[p], fs[p])
                          ELSE app_filled_from[p]]
    /\ UNCHANGED <<fs, changes, sessionVars, callVars>>

\* the environment creates, replaces or deletes a data file
FileChange(p, content) ==
    /\ changes < MaxFileChanges
    /\ content # fs[p]
    /\ fs' = [fs EXCEPT ![p] = content]
    /\ changes' = changes + 1
    /\ UNCHANGED <<sessionVars, appVars, callVars>>

\* demo-app.py: one session and its data files
Next ==
    \/ NewSession
    \/ \E k \in KeyChoices : KeyInput(k)
    \/ DemoToggle
    \/ \E y \in YearChoices : YearInput(y)
    \/ \E q \in QueryChoices : QueryInput(q)
    \/ \E p \in DemoPaths, content \in SessionFileContents : FileChange(p, content)

Spec == Init /\ [][Next]_vars

\* the data resolvers of both entry points: page loads of demo-app.py, runs
\* of app.py, and the files of both
NextResolver ==
    \/ NewSession
    \/ AppRun
    \/ \E p \in Paths, content \in FileContents : FileChange(p, content)

SpecResolver == Init /\ [][NextResolver]_vars

----------------------------------------------------------------------------
(* Direct calls of apply_filters and ensure_demo_if_empty on the tables    *)
(* load_csv can return and the arguments the signatures allow.             *)

HorseCells == {NaN, Some(<<"a","B">>), Some(<<"b">>)}
YearCells == {Some(2024), Some(DefaultYear)}
OddsCells == {Some(5)}

RowsOver(columns) ==
    IF columns = <<"Horse", "Year">> THEN [Horse : HorseCells, Year : YearCells]
    ELSE IF columns = <<"Horse">> THEN [Horse : HorseCells]
    ELSE IF columns = <<"Year">> THEN [Year : YearCells]
    ELSE [Odds : OddsCells]

ColumnChoices == {<<"Horse", "Year">>, <<"Horse">>, <<"Year">>, <<"Odds">>}

SeqsUpTo(S, n) == UNION {[1..m -> S] : m \in 0..n}

\* files that parse: a header line and at most MaxRows records
CsvFiles == UNION {{Csv(columns, rows) : rows \in SeqsUpTo(RowsOver(columns), MaxRows)} :
                        columns \in ColumnChoices}

\* what load_csv can return
LoadResults == {EmptyDataFrame} \cup {read_csv(c) : c \in CsvFiles}
\* what the view loop can hand to apply_filters
FilterInputs == {df \in LoadResults : ~df_empty(df)} \cup {make_demo_df("cluster")}

QueryChars == {"b", ".", "*", "("}
YearArgs == {None} \cup {Some(y) : y \in YearChoices}
QueryArgs == {None} \cup {Some(q) : q \in SeqsUpTo(QueryChars, MaxQueryLen)}

InitFilter ==
    /\ Idle
    /\ ACCESS_KEY = None
    /\ arg_df \in FilterInputs
    /\ arg_year \in YearArgs
    /\ arg_query \in QueryArgs
    /\ arg_kind = ""
    /\ called = ""
    /\ ret = Ok(EmptyDataFrame)

CallApplyFilters ==
    /\ called = ""
    /\ called' = "apply_filters"
    /\ ret' = apply_filters(arg_df, arg_year, arg_query)
    /\ UNCHANGED <<fs, changes, sessionVars, appVars, arg_df, arg_year, arg_query, arg_kind>>

SpecFilter == InitFilter /\ [][CallApplyFilters]_vars

InitEnsure ==
    /\ Idle
    /\ ACCESS_KEY = None
    /\ arg_df \in LoadResults
    /\ arg_year = None
    /\ arg_query = None
    /\ arg_kind \in ViewKinds
    /\ called = ""
    /\ ret = Ok(EmptyDataFrame)

CallEnsureDemoIfEmpty ==
    /\ called = ""
    /\ called' = "ensure_demo_if_empty"
    /\ ret' = Ok(ensure_demo_if_empty(arg_df, arg_kind))
    /\ UNCHANGED <<fs, changes, sessionVars, appVars, arg_df, arg_year, arg_query, arg_kind>>

\* the result of the first call is handed to ensure_demo_if_empty again
CallEnsureDemoIfEmptyAgain ==
    /\ called = "ensure_demo_if_empty"
    /\ called' = "ensure_demo_if_empty twice"
    /\ ret' = Ok(ensure_demo_if_empty(ret.df, arg_kind))
    /\ UNCHANGED <<fs, changes, sessionVars, appVars, arg_df, arg_year, arg_query, arg_kind>>

NextEnsure == CallEnsureDemoIfEmpty \/ CallEnsureDemoIfEmptyAgain

SpecEnsure == InitEnsure /\ [][NextEnsure]_vars

----------------------------------------------------------------------------
(* Properties *)

ViewPath(i) == DATA_VIEWS[i].file

RECURSIVE RowsWith(_, _, _)
\* the rows whose column c holds v, in their order
RowsWith(rows, c, v) ==
    IF rows = <<>> THEN <<>>
    ELSE (IF Head(rows)[c] = v THEN <<Head(rows)>> ELSE <<>>) \o RowsWith(Tail(rows), c, v)

\* q occurs in s as a literal substring, letter case ignored
ContainsLiteral(s, q) ==
    \E j \in 0..(Len(s) - Len(q)) :
        \A i \in 1..Len(q) : LowerChar(s[j + i]) = LowerChar(q[i])

\* C1: in both entry points load_csv returns normally, and returns a table of
\* zero rows when the file it read was missing or could not be parsed.
C1_LoadNeverRaises ==
    /\ \A i \in DOMAIN app_out :
          /\ app_out[i].exc = "none"
          /\ app_filled_from[APP_FILES[i]] # None
          /\ app_filled_from[APP_FILES[i]][1].kind # "csv" => app_out[i].df.rows = <<>>
    /\ \A i \in DOMAIN shown :
          /\ filled_from[ViewPath(i)] # None
          /\ filled_from[ViewPath(i)][1].kind # "csv" => shown[i].loaded.rows = <<>>

\* C2: a run of demo-app.py completes the pipeline for all five views; no
\* pass of the view loop raises.
C2_NoFatalPath ==
    shown # <<>> =>
        /\ Len(shown) = Len(DATA_VIEWS)
        /\ \A i \in DOMAIN shown : shown[i].exc = "none"

\* C3: in demo mode the table of every view consists of synthetic rows only.
C3_DemoModeShowsOnlyDemoRows ==
    (shown # <<>> /\ demo_mode) =>
        \A i \in DOMAIN shown :
            Range(shown[i].df.rows) \subseteq
                Range(make_demo_df(ViewKind(DATA_VIEWS[i])).rows)

\* the pass got as far as the summary metrics: apply_filters returned
ReachedMetrics(pass) == pass.exc \in {"none", "ValueError"}

\* C4 as stated: the table handed to the summary metrics and render_table
\* has at least one row.
C4_PresentationNeverEmpty ==
    \A i \in DOMAIN shown : ReachedMetrics(shown[i]) => Len(shown[i].df.rows) >= 1

\* C4 amended: the table handed to apply_filters (the result of
\* ensure_demo_if_empty) has at least one row, and it is the synthetic table
\* whenever load_csv returned no row.
C4_FilterInputNeverEmpty ==
    \A i \in DOMAIN shown :
        /\ Len(shown[i].substituted.rows) >= 1
        /\ shown[i].loaded.rows = <<>> => Len(shown[i].substituted.rows) = 5

\* a header-only file: the synthetic table is substituted and the year
\* filter then removes every row
C4_Witness ==
    \E i \in DOMAIN shown :
        /\ shown[i].at_call.kind = "csv"
        /\ shown[i].loaded.rows = <<>>
        /\ HasColumn(shown[i].loaded, "Horse")
        /\ Len(shown[i].substituted.rows) = 5
        /\ ReachedMetrics(shown[i])
        /\ shown[i].df.rows = <<>>

C6_QueryIsLiteralSubstring ==
    (/\ called = "apply_filters"
     /\ HasColumn(arg_df, "Horse")
     /\ arg_query # None) =>
        /\ ret.exc = "none"
        /\ \A i \in DOMAIN ret.df.rows :
              /\ ret.df.rows[i].Horse # NaN
              /\ ContainsLiteral(ret.df.rows[i].Horse[1], arg_query[1])

\* C7 as stated: whenever a secret is configured, the empty string included,
\* access is granted exactly when the key equals it; with no secret the state
\* is the demo toggle.
C7_GateForEverySecret ==
    shown # <<>> =>
        /\ ACCESS_KEY # None => (~demo_mode <=> key = ACCESS_KEY[1])
        /\ ACCESS_KEY = None => demo_mode = demo_toggle

\* C7 amended: for a configured secret that is not the empty string, access
\* is granted exactly when the key equals it; with no secret, or the empty
\* string as the secret, the state is the demo toggle.
C7_GateForNonEmptySecret ==
    shown # <<>> =>
        /\ (ACCESS_KEY # None /\ ACCESS_KEY[1] # <<>>) => (~demo_mode <=> key = ACCESS_KEY[1])
        /\ (ACCESS_KEY = None \/ ACCESS_KEY = Some(<<>>)) => demo_mode = demo_toggle

\* the configured secret is typed and access is granted
C7_Witness ==
    /\ shown # <<>>
    /\ ACCESS_KEY = Some(Secret)
    /\ key = Secret
    /\ ~demo_mode

\* C8: ensure_demo_if_empty returns the five-row synthetic table of the kind
\* for a table of zero rows and the table itself for a table with a row; a
\* second application changes nothing; for kind "cluster" and no file the
\* result has five rows and a Cluster column with values among A, B, C.
C8_EnsureDemoIfEmpty ==
    /\ called = "ensure_demo_if_empty" =>
          /\ Len(arg_df.rows) = 0 =>
                /\ ret.df = make_demo_df(arg_kind)
                /\ Len(ret.df.rows) = 5
          /\ Len(arg_df.rows) >= 1 => ret.df = arg_df
          /\ (arg_kind = "cluster" /\ arg_df = EmptyDataFrame) =>
                /\ HasColumn(ret.df, "Cluster")
                /\ \A i \in DOMAIN ret.df.rows : ret.df.rows[i].Cluster \in
                                                   {Some("A"), Some("B"), Some("C")}
    /\ called = "ensure_demo_if_empty twice" =>
          ret.df = IF Len(arg_df.rows) = 0 THEN make_demo_df(arg_kind) ELSE arg_df

\* no file, kind "cluster", ensure_demo_if_empty applied twice
C8_Witness ==
    /\ called = "ensure_demo_if_empty twice"
    /\ arg_kind = "cluster"
    /\ arg_df = EmptyDataFrame
    /\ Len(ret.df.rows) = 5

\* C9 as stated: every load_csv call returns the table of the file as it is
\* when the call is made.
C9_LoadReadsCurrentFile ==
    /\ \A i \in DOMAIN shown : shown[i].loaded = LoadCsvBody(shown[i].at_call).df
    /\ \A i \in DOMAIN app_out :
          LET now == AppLoadCsvBody(app_out[i].at_call)
          IN  app_out[i].exc = now.exc /\ app_out[i].df = now.df

\* C9 amended: every load_csv call that returns, returns the table of the
\* file as it was at the first call for that path that returned; a call of
\* app.py raises only when no earlier call for the path returned.
C9_LoadReturnsFirstRead ==
    /\ \A i \in DOMAIN shown :
          /\ filled_from[ViewPath(i)] # None
          /\ shown[i].loaded = LoadCsvBody(filled_from[ViewPath(i)][1]).df
    /\ \A i \in DOMAIN app_out :
          IF app_out[i].exc = "none"
          THEN /\ app_filled_from[APP_FILES[i]] # None
               /\ app_out[i].df = AppLoadCsvBody(app_filled_from[APP_FILES[i]][1]).df
          ELSE app_filled_from[APP_FILES[i]] = None

\* a file missing at the first call exists at a later call, which returns
\* the earlier empty table
C9_Witness ==
    \E i \in DOMAIN shown :
        /\ filled_from[ViewPath(i)] = Some(Missing)
        /\ shown[i].at_call = RealCsv
        /\ shown[i].loaded = EmptyDataFrame

\* the rows both filters keep, each filter active as apply_filters decides
BothPredicates(df, year, query) ==
    LET yearActive == year # None /\ HasColumn(df, "Year")
        queryActive == TruthyStr(query) /\ HasColumn(df, "Horse")
        keep(row) ==
            /\ yearActive => row.Year = year
            /\ queryActive => (row.Horse # NaN /\ ContainsLiteral(row.Horse[1], query[1]))
    IN  SelectSeq(df.rows, keep)

\* apply_filters on the result of an earlier call; an exception of the
\* earlier call propagates
ThenApplyFilters(first, year, query) ==
    IF first.exc # "none" THEN first ELSE apply_filters(first.df, year, query)

\* C10: apply_filters(table, Y, Q) returns the rows that satisfy both active
\* predicates, equals the two filters applied one after the other in either
\* order, and a filter whose column is absent changes nothing and raises
\* nothing.
C10_FiltersComposeAndCommute ==
    called = "apply_filters" =>
        /\ ret.exc = "none"
        /\ ret.df.rows = BothPredicates(arg_df, arg_year, arg_query)
        /\ ret = ThenApplyFilters(apply_filters(arg_df, arg_year, None), None, arg_query)
        /\ ret = ThenApplyFilters(apply_filters(arg_df, None, arg_query), arg_year, None)
        /\ (~HasColumn(arg_df, "Year") /\ ~HasColumn(arg_df, "Horse")) => ret = Ok(arg_df)

====
